---- MODULE Spec2Model ----
(***************************************************************************)
(* A model of the React developer utilities:                               *)
(*   - the useFetch, useEventListener and useDebounce hooks                *)
(*     (src/hooks/useFetch.js),                                            *)
(*   - useClipboard (src/snippets/useClipboard.js) and useOnlineStatus     *)
(*     (src/unnamed/part_016),                                             *)
(*   - storage, classNames, formatDate, throttle and debounce              *)
(*     (src/unnamed/part_010), and useTheme's write to the same Storage    *)
(*     object (src/unnamed/part_017).                                      *)
(* A render is committed in one step; the passive effects it schedules,    *)
(* and the cleanup after an unmount, run in a later step.                  *)
(* Each piece has its own next-state relation and specification over the   *)
(* shared variable tuple; the pieces do not interact.                      *)
(***************************************************************************)
EXTENDS Integers, Sequences, FiniteSets

VARIABLES
    \* ---- useFetch: the caller's inputs
    optsOmitted,      \* TRUE: the caller passes no options (default {} per render)
    immediate,        \* the immediate argument
    url,              \* the url argument of the latest render
    opts,             \* identity of the options object the caller passes
    \* ---- useFetch: the hook instance
    life,             \* "init" (committed, effects not flushed) | "mounted" | "unmounted"
    data,             \* useState(null): 0 is null, r is the body decoded for request r
    error,            \* useState(null): NoError is null
    loading,          \* useState(immediate)
    controllerRef,    \* controllerRef.current: 0 is null, r the controller of request r
    reqs,             \* every fetchData call so far, in order of issue
    effUrl, effOpts,  \* the dependencies the effect last ran with
    \* ---- useFetch: history
    setAfterUnmount,  \* some setter was invoked after unmount
    shown,            \* what the latest committed render returned
    pending,          \* the effect or cleanup waiting to be flushed, by what committed it
    refetches,        \* refetch() calls so far
    changes,          \* caller changes of url/options so far
    rerenders,        \* renders caused by the parent with unchanged inputs
    \* ---- timers
    now,              \* the clock (Date.now() and the timer clock)
    \* ---- throttle
    lastTime,         \* throttle: let lastTime
    tTimeoutId,       \* throttle: let timeoutId (0 is null)
    tTimers,          \* throttle: the wrapper's pending setTimeout callbacks
    tCalls,           \* throttle: calls of the wrapper so far
    tExecs,           \* throttle: executions of fn so far
    \* ---- debounce
    dDelay,           \* debounce: the delay argument
    dTimeoutId,       \* debounce: let timeoutId (0 is undefined)
    dTimers,          \* debounce: the wrapper's pending setTimeout callbacks
    dCalls,           \* debounce: calls of the wrapper so far
    dExecs,           \* debounce: executions of fn so far
    \* ---- useDebounce
    udLife,           \* "init" (rendered, effect not run) | "mounted" | "unmounted"
    udValue,          \* the value argument of the latest render
    udDelay,          \* the delay argument of the latest render
    udDebounced,      \* useState(value)
    udHandler,        \* the handler of the latest effect run (0: none yet)
    udPending,        \* the effect or cleanup waiting to be flushed
    udTimers,         \* the hook's pending setTimeout callbacks
    udSince,          \* when the value argument last changed
    udPrev,           \* the value argument before it last changed
    udLastSet,        \* the latest setDebouncedValue call
    udCancelled,      \* pending timers cancelled by the cleanup so far
    udRenders,        \* renders caused by the parent so far
    \* ---- useClipboard
    cbCopied,         \* useState(false)
    cbWrites,         \* pending navigator.clipboard.writeText promises
    cbTimers,         \* pending reset timers
    cbCopies,         \* copy() calls so far
    cbLastSuccess,    \* when the latest writeText resolved (0: never)
    \* ---- useEventListener
    elLife,           \* "init" | "mounted" | "unmounted"
    elHandler,        \* the handler argument of the latest render
    elEvent,          \* the eventName argument of the latest render
    elElement,        \* the element argument of the latest render
    elSaved,          \* savedHandler.current
    elPending,        \* the effects or cleanup waiting to be flushed
    elListeners,      \* the listeners the hook has registered on DOM elements
    elAdds,           \* addEventListener calls so far
    elRemoves,        \* removeEventListener calls so far
    elRenders,        \* renders caused by the parent so far
    elDispatches,     \* events dispatched so far
    elLast,           \* the latest dispatched event and what it invoked
    \* ---- useOnlineStatus
    navOnline,        \* navigator.onLine
    olIsOnline,       \* useState(navigator.onLine)
    olLife,           \* "init" | "mounted" | "unmounted"
    olListening,      \* the hook's online/offline listeners are attached
    olSetAfterUnmount, \* setIsOnline was invoked after unmount
    olQueue,          \* online/offline events fired by the browser, not yet delivered
    olFlips,          \* connectivity changes so far
    \* ---- storage
    stAvailable,      \* FALSE: every access to the Storage object throws
    stStore,          \* the Storage object: key -> item text, or NoItem
    stWritten,        \* key -> the value of the latest set that did not fail
                      \* and is still in the store
    stLast,           \* the latest call of the wrapper and its outcome
    stOps,            \* calls of the wrapper so far
    stRawWrites,      \* writes to the Storage object that bypass the wrapper
    \* ---- classNames
    cnArgs,           \* the arguments of the call
    cnResult,         \* what the call returned (NotCalled before it)
    \* ---- formatDate
    fdDate,           \* the date argument: valid or not, and now - date in ms
    fdResult          \* what formatDate(date, {relative: true}) returned

fetchVars == <<optsOmitted, immediate, url, opts, life, data, error, loading,
               controllerRef, reqs, effUrl, effOpts, setAfterUnmount,
               shown, pending, refetches, changes, rerenders>>
throttleVars == <<lastTime, tTimeoutId, tTimers, tCalls, tExecs>>
debounceVars == <<dDelay, dTimeoutId, dTimers, dCalls, dExecs>>
useDebounceVars == <<udLife, udValue, udDelay, udDebounced, udHandler, udPending,
                     udTimers, udSince, udPrev, udLastSet, udCancelled, udRenders>>
clipboardVars == <<cbCopied, cbWrites, cbTimers, cbCopies, cbLastSuccess>>
listenerVars == <<elLife, elHandler, elEvent, elElement, elSaved, elPending,
                  elListeners, elAdds, elRemoves, elRenders, elDispatches, elLast>>
onlineVars == <<navOnline, olIsOnline, olLife, olListening, olSetAfterUnmount,
                olQueue, olFlips>>
storageVars == <<stAvailable, stStore, stWritten, stLast, stOps, stRawWrites>>
pureVars == <<cnArgs, cnResult, fdDate, fdResult>>
hookVars == <<useDebounceVars, clipboardVars, listenerVars, onlineVars, storageVars,
              pureVars>>
vars == <<fetchVars, now, throttleVars, debounceVars, hookVars>>

(***************************************************************************)
(* Bounds                                                                  *)
(***************************************************************************)
MaxReq == 2          \* requests issued by one hook instance
MaxChanges == 1      \* caller changes of url/options
MaxRerenders == 1    \* parent renders with unchanged inputs
Urls == {"u1", "u2"}
OptionObjs == {"o1", "o2"}
Epoch == 4           \* the clock at the start (Date.now() is far from 0)
MaxTicks == 7        \* clock ticks
MaxCalls == 3        \* calls of one throttled wrapper
MaxDebounceCalls == 2   \* calls of one debounced wrapper
NumArgs == 2         \* distinct argument values
ThrottleWait == 3    \* throttle(fn, wait)
DebounceDelay == 2   \* debounce(fn, delay): the largest delay
MaxEarly == 1        \* ms by which the timer clock can be ahead of Date.now()

UseDebounceDelay == 2   \* useDebounce(value, delay): the largest delay
MaxUdRenders == 3    \* parent renders of the useDebounce component
ClipTimeout == 2     \* useClipboard(timeout)
MaxCopies == 3       \* copy() calls
MaxElRenders == 2    \* parent renders of the useEventListener component
MaxDispatches == 2   \* DOM events dispatched
MaxFlips == 4        \* connectivity changes
MaxOps == 3          \* calls of the storage wrapper
MaxRawWrites == 1    \* writes to the Storage object that bypass the wrapper
MaxArity == 2        \* arguments of one classNames call
MaxDays == 2         \* whole days between the date and now

Args == 1..NumArgs
Contexts == {"c1", "c2"}   \* calling contexts (this) of a wrapper call

\* useDebounce
UdValues == {"a", "b", "c"}          \* the value argument
UdDelays == 1..UseDebounceDelay      \* the delay argument
NoSet == [time |-> 0, value |-> "none", input |-> "none", since |-> 0,
          delay |-> 0, life |-> "none"]

\* useEventListener
Handlers == {"h1", "h2"}             \* the handler argument
EventNames == {"click", "keydown"}   \* the eventName argument
DomElements == {"window", "div"}     \* objects with addEventListener
Elements == DomElements \cup {"null"} \* the element argument
NoHandler == "undefined"
NoDispatch == [type |-> "none", target |-> "none", count |-> 0,
               handler |-> NoHandler]

\* storage
Keys == {"k1", "theme"}
ThemeKey == "theme"                  \* the key useTheme writes
Themes == {"light", "dark"}          \* the texts useTheme writes
NoItem == "<null>"                   \* getItem(key) === null
Absent == "<absent>"                 \* no set of the key is in effect
JsValues == {"undefined", "null", "NaN", "number 1", "string 1",
             "object", "circular object"}   \* the value argument of set
Defaults == {"null", "string d"}            \* the defaultValue argument of get
NoOp == [op |-> "none", key |-> "none", value |-> "none", dflt |-> "none",
         result |-> "none", escaped |-> FALSE, failed |-> FALSE]

\* classNames, formatDate
NotCalled == <<"not called">>          \* no string: strings are character sequences
FdNotCalled == [unit |-> "not called", n |-> 0, plural |-> FALSE]

\* fn is one fixed function of its arguments: it throws for the first
\* argument value and returns for the others.
FnThrows(a) == a = 1

(***************************************************************************)
(* useFetch                                                                *)
(***************************************************************************)
NullData == 0
NoError == [req |-> 0, kind |-> "none"]
NoEffect == "none"   \* no effect is waiting to be flushed

\* The hook instance as one record, so that the parts of a handler can be
\* composed.
Cur ==
    [life |-> life, url |-> url, opts |-> opts, data |-> data, error |-> error,
     loading |-> loading, controllerRef |-> controllerRef, reqs |-> reqs,
     effUrl |-> effUrl, effOpts |-> effOpts, setAfterUnmount |-> setAfterUnmount,
     shown |-> shown, pending |-> pending]

Install(s) ==
    /\ life' = s.life
    /\ url' = s.url
    /\ opts' = s.opts
    /\ data' = s.data
    /\ error' = s.error
    /\ loading' = s.loading
    /\ controllerRef' = s.controllerRef
    /\ reqs' = s.reqs
    /\ effUrl' = s.effUrl
    /\ effOpts' = s.effOpts
    /\ setAfterUnmount' = s.setAfterUnmount
    /\ shown' = s.shown
    /\ pending' = s.pending

NewRequest(u, trig) ==
    [url |-> u, phase |-> "fetch", aborted |-> FALSE, outcome |-> "pending",
     trigger |-> trig, promise |-> "pending"]

\* Setters called by fetchData or by a request's continuation: they queue the
\* new state, and React renders it later; on an unmounted instance they change
\* nothing.
Setters(s, t) ==
    IF s.life = "unmounted" THEN [s EXCEPT !.setAfterUnmount = TRUE]
    ELSE t

\* fetchData up to its first await: setLoading(true); setError(null);
\* controllerRef.current = new AbortController(); fetch(url, {...options, signal}).
FetchData(s, trig) ==
    LET s1 == [s EXCEPT !.reqs = Append(@, NewRequest(s.url, trig)),
                        !.controllerRef = Len(s.reqs) + 1]
    IN Setters(s1, [s1 EXCEPT !.loading = TRUE, !.error = NoError])

\* controllerRef.current?.abort()
AbortCurrent(s) ==
    IF s.controllerRef = 0 THEN s
    ELSE [s EXCEPT !.reqs[s.controllerRef].aborted = TRUE]

\* A variant of EffectBody that fetches whatever immediate is.
EffectBodyAlways(s, trig) ==
    FetchData([s EXCEPT !.effUrl = s.url, !.effOpts = s.opts], trig)

\* The effect's body: if (immediate) fetchData();
EffectBody(s, trig) ==
    LET s1 == [s EXCEPT !.effUrl = s.url, !.effOpts = s.opts]
    IN IF immediate THEN FetchData(s1, trig) ELSE s1

\* useState's bail-out: a render is committed only when a value differs from
\* what the last render returned.
StateChanged(a, b) ==
    a.data # b.data \/ a.error # b.error \/ a.loading # b.loading

\* The effect's dependencies [fetchData, immediate]: fetchData is a new
\* function whenever url or options differ (Object.is) from the last render;
\* the default parameter options = {} is a new object on every render.
DepsChanged(s) ==
    optsOmitted \/ s.url # s.effUrl \/ s.opts # s.effOpts

\* return { data, error, loading, refetch: fetchData }
View(s) == [data |-> s.data, error |-> s.error, loading |-> s.loading]

\* One render of the mounted component and its commit: the hook returns the
\* queued state; when the dependencies changed, the effect's cleanup and body
\* are left to be flushed after the commit.
Render(s, trig) ==
    [s EXCEPT !.shown = View(s),
              !.pending = IF DepsChanged(s) THEN trig ELSE NoEffect]

\* A variant of Settled whose catch block rethrows what it caught.
SettledRethrows(s, r, outcome) ==
    [s EXCEPT !.reqs[r].phase = "done", !.reqs[r].outcome = outcome,
              !.reqs[r].promise = IF outcome = "success" THEN "fulfilled"
                                  ELSE "rejected"]

\* The request's continuation runs to the end of fetchData: the try block
\* completes or the catch block handles what was thrown, without rethrowing,
\* so the promise fetchData returned is fulfilled.
Settled(s, r, outcome) ==
    [s EXCEPT !.reqs[r].phase = "done", !.reqs[r].outcome = outcome,
              !.reqs[r].promise = "fulfilled"]

\* A variant of Succeed without the finally block.
SucceedKeepsLoading(s, r) ==
    LET s0 == Settled(s, r, "success")
    IN Setters(s0, [s0 EXCEPT !.data = r])

\* setData(result); finally setLoading(false)
Succeed(s, r) ==
    LET s0 == Settled(s, r, "success")
    IN Setters(s0, [s0 EXCEPT !.data = r, !.loading = FALSE])

\* A variant of Fail that swallows every error as it does an AbortError.
FailSilent(s, r, kind) ==
    LET s0 == Settled(s, r, kind)
    IN Setters(s0, [s0 EXCEPT !.loading = FALSE])

\* A variant of Fail that also resets data.
FailClearsData(s, r, kind) ==
    LET s0 == Settled(s, r, kind)
    IN Setters(s0, [s0 EXCEPT !.error = [req |-> r, kind |-> kind],
                              !.data = NullData,
                              !.loading = FALSE])

\* catch: err.name !== "AbortError": setError(err); finally setLoading(false)
Fail(s, r, kind) ==
    LET s0 == Settled(s, r, kind)
    IN Setters(s0, [s0 EXCEPT !.error = [req |-> r, kind |-> kind],
                              !.loading = FALSE])

\* A variant of Aborted whose catch block stores the AbortError.
AbortedStoresError(s, r) ==
    LET s0 == Settled(s, r, "abort")
    IN Setters(s0, [s0 EXCEPT !.error = [req |-> r, kind |-> "abort"],
                              !.loading = FALSE])

\* catch: err.name === "AbortError": nothing; finally setLoading(false)
Aborted(s, r) ==
    LET s0 == Settled(s, r, "abort")
    IN Setters(s0, [s0 EXCEPT !.loading = FALSE])

Step(t) ==
    /\ Len(t.reqs) <= MaxReq
    /\ Install(t)

FetchFrame ==
    UNCHANGED <<optsOmitted, immediate, now, throttleVars, debounceVars, hookVars>>

\* The effects of the first commit are flushed: the effect's body runs.
Mount ==
    /\ life = "init"
    /\ Step(EffectBody([Cur EXCEPT !.life = "mounted"], "mount"))
    /\ UNCHANGED <<refetches, changes, rerenders>>
    /\ FetchFrame

\* The caller invokes the refetch of the latest render; nothing in fetchData
\* asks whether the component is still mounted.
Refetch ==
    /\ Step(FetchData(Cur, "refetch"))
    /\ refetches' = refetches + 1
    /\ UNCHANGED <<changes, rerenders>>
    /\ FetchFrame

\* React renders after the hook's setters have queued a state that differs
\* from the one shown. React flushes the effects of a commit before it renders
\* again, so a render starts with no effect waiting.
Rerender ==
    /\ life = "mounted"
    /\ pending = NoEffect
    /\ StateChanged(Cur, shown)
    /\ Step(Render(Cur, "rerender"))
    /\ UNCHANGED <<refetches, changes, rerenders>>
    /\ FetchFrame

\* The caller renders the component with another url.
ChangeUrl ==
    /\ life = "mounted"
    /\ pending = NoEffect
    /\ changes < MaxChanges
    /\ \E u \in Urls \ {url} : Step(Render([Cur EXCEPT !.url = u], "inputs"))
    /\ changes' = changes + 1
    /\ UNCHANGED <<refetches, rerenders>>
    /\ FetchFrame

\* The caller renders the component with another options object.
ChangeOptions ==
    /\ life = "mounted"
    /\ pending = NoEffect
    /\ ~optsOmitted
    /\ changes < MaxChanges
    /\ \E o \in OptionObjs \ {opts} : Step(Render([Cur EXCEPT !.opts = o], "inputs"))
    /\ changes' = changes + 1
    /\ UNCHANGED <<refetches, rerenders>>
    /\ FetchFrame

\* The parent renders the component with the same inputs.
ParentRerender ==
    /\ life = "mounted"
    /\ pending = NoEffect
    /\ rerenders < MaxRerenders
    /\ Step(Render(Cur, "rerender"))
    /\ rerenders' = rerenders + 1
    /\ UNCHANGED <<refetches, changes>>
    /\ FetchFrame

\* The effects of the latest commit are flushed: the cleanup of the previous
\* effect, then the effect's body.
FlushEffects ==
    /\ life = "mounted"
    /\ pending # NoEffect
    /\ Step([EffectBody(AbortCurrent(Cur), pending) EXCEPT !.pending = NoEffect])
    /\ UNCHANGED <<refetches, changes, rerenders>>
    /\ FetchFrame

InFlight(r) == reqs[r].phase # "done"

\* await fetch(...) resolves with a response.
FetchResolve ==
    /\ \E r \in 1..Len(reqs), ok \in BOOLEAN :
        /\ reqs[r].phase = "fetch"
        /\ ~reqs[r].aborted
        /\ IF ok
           THEN Step([Cur EXCEPT !.reqs[r].phase = "json"])
           ELSE Step(Fail(Cur, r, "http"))
    /\ UNCHANGED <<refetches, changes, rerenders>>
    /\ FetchFrame

\* await fetch(...) rejects with a network error.
FetchReject ==
    /\ \E r \in 1..Len(reqs) :
        /\ reqs[r].phase = "fetch"
        /\ ~reqs[r].aborted
        /\ Step(Fail(Cur, r, "network"))
    /\ UNCHANGED <<refetches, changes, rerenders>>
    /\ FetchFrame

\* await response.json() resolves.
JsonResolve ==
    /\ \E r \in 1..Len(reqs) :
        /\ reqs[r].phase = "json"
        /\ ~reqs[r].aborted
        /\ Step(Succeed(Cur, r))
    /\ UNCHANGED <<refetches, changes, rerenders>>
    /\ FetchFrame

\* await response.json() rejects: the body does not decode.
JsonReject ==
    /\ \E r \in 1..Len(reqs) :
        /\ reqs[r].phase = "json"
        /\ ~reqs[r].aborted
        /\ Step(Fail(Cur, r, "decode"))
    /\ UNCHANGED <<refetches, changes, rerenders>>
    /\ FetchFrame

\* The pending await of a request whose signal was aborted rejects with an
\* AbortError.
AbortReject ==
    /\ \E r \in 1..Len(reqs) :
        /\ InFlight(r)
        /\ reqs[r].aborted
        /\ Step(Aborted(Cur, r))
    /\ UNCHANGED <<refetches, changes, rerenders>>
    /\ FetchFrame

\* The component unmounts: React commits the deletion, after which the setters
\* do nothing, and leaves the effect's cleanup to be flushed. The unmount is a
\* commit too, so the effects of an earlier commit have been flushed before it.
Unmount ==
    /\ life = "mounted"
    /\ pending = NoEffect
    /\ Step([Cur EXCEPT !.life = "unmounted", !.pending = "unmount"])
    /\ UNCHANGED <<refetches, changes, rerenders>>
    /\ FetchFrame

\* The cleanup of the unmounted component's effect is flushed:
\* controllerRef.current?.abort().
UnmountCleanup ==
    /\ life = "unmounted"
    /\ pending = "unmount"
    /\ Step([AbortCurrent(Cur) EXCEPT !.pending = NoEffect])
    /\ UNCHANGED <<refetches, changes, rerenders>>
    /\ FetchFrame

InitFetch ==
    /\ optsOmitted \in BOOLEAN
    /\ immediate \in BOOLEAN
    /\ url = "u1"
    /\ opts = "o1"
    /\ life = "init"
    /\ data = NullData
    /\ error = NoError
    /\ loading = immediate
    /\ controllerRef = 0
    /\ reqs = <<>>
    /\ effUrl = "u1"
    /\ effOpts = "o1"
    /\ setAfterUnmount = FALSE
    /\ shown = [data |-> NullData, error |-> NoError, loading |-> immediate]
    /\ pending = NoEffect
    /\ refetches = 0
    /\ changes = 0
    /\ rerenders = 0

InitThrottle ==
    /\ lastTime = 0
    /\ tTimeoutId = 0
    /\ tTimers = {}
    /\ tCalls = <<>>
    /\ tExecs = <<>>

InitDebounce ==
    /\ dTimeoutId = 0
    /\ dTimers = {}
    /\ dCalls = <<>>
    /\ dExecs = <<>>

\* useDebounce after its first render: debouncedValue is the first value.
InitUseDebounce ==
    /\ udLife = "init"
    /\ udValue = "a"
    /\ udDelay = UseDebounceDelay
    /\ udDebounced = "a"
    /\ udHandler = 0
    /\ udPending = NoEffect
    /\ udTimers = {}
    /\ udSince = Epoch
    /\ udPrev = "none"
    /\ udLastSet = NoSet
    /\ udCancelled = 0
    /\ udRenders = 0

\* useClipboard after its first render.
InitClipboard ==
    /\ cbCopied = FALSE
    /\ cbWrites = {}
    /\ cbTimers = {}
    /\ cbCopies = 0
    /\ cbLastSuccess = 0

\* useEventListener after its first render: the ref is still empty and no
\* listener is registered.
InitListener ==
    /\ elLife = "init"
    /\ elHandler = "h1"
    /\ elEvent = "click"
    /\ elElement = "window"
    /\ elSaved = NoHandler
    /\ elPending = {}
    /\ elListeners = {}
    /\ elAdds = 0
    /\ elRemoves = 0
    /\ elRenders = 0
    /\ elDispatches = 0
    /\ elLast = NoDispatch

\* useOnlineStatus after its first render, which read navigator.onLine.
InitOnline ==
    /\ navOnline = TRUE
    /\ olIsOnline = navOnline
    /\ olLife = "init"
    /\ olListening = FALSE
    /\ olSetAfterUnmount = FALSE
    /\ olQueue = <<>>
    /\ olFlips = 0

\* An empty, available Storage object.
InitStorage ==
    /\ stAvailable = TRUE
    /\ stStore = [k \in Keys |-> NoItem]
    /\ stWritten = [k \in Keys |-> Absent]
    /\ stLast = NoOp
    /\ stOps = 0
    /\ stRawWrites = 0

\* classNames and formatDate before they are called.
InitPure ==
    /\ cnArgs = <<>>
    /\ cnResult = NotCalled
    /\ fdDate = [valid |-> TRUE, diff |-> 0]
    /\ fdResult = FdNotCalled

\* The utilities beside the useFetch hook, before their first use.
InitUtils ==
    /\ now = Epoch
    /\ InitThrottle
    /\ InitDebounce
    /\ InitUseDebounce
    /\ InitClipboard
    /\ InitListener
    /\ InitOnline
    /\ InitStorage
    /\ InitPure

Init ==
    /\ InitFetch
    /\ InitUtils
    /\ dDelay = DebounceDelay

\* The timing utilities run beside one fixed, idle hook instance.
InitTimers ==
    /\ Init
    /\ ~optsOmitted
    /\ immediate

NextFetch ==
    \/ Mount
    \/ Refetch
    \/ Rerender
    \/ ChangeUrl
    \/ ChangeOptions
    \/ ParentRerender
    \/ FlushEffects
    \/ FetchResolve
    \/ FetchReject
    \/ JsonResolve
    \/ JsonReject
    \/ AbortReject
    \/ Unmount
    \/ UnmountCleanup

SpecFetch == Init /\ [][NextFetch]_vars

(***************************************************************************)
(* Timers: a setTimeout callback runs once its delay has passed on the     *)
(* runtime's timer clock, or later; the clock advances whether or not a    *)
(* due callback has run.  Date.now() is another clock: its millisecond     *)
(* boundaries differ from the timer clock's, so that by Date.now()         *)
(* readings a callback can run up to MaxEarly before it is due.            *)
(***************************************************************************)
\* The timer t of a wrapper that is measured by Date.now() can run.
CanRun(t) == t.due <= now + MaxEarly

Tick ==
    /\ now < Epoch + MaxTicks
    /\ now' = now + 1
    /\ UNCHANGED <<fetchVars, throttleVars, debounceVars, hookVars>>

(***************************************************************************)
(* throttle(fn, wait)                                                      *)
(***************************************************************************)
\* A variant of Remaining that keeps the window open one tick longer.
RemainingLate(t) == ThrottleWait + 1 - (t - lastTime)

\* const remaining = wait - (now - lastTime);
Remaining(t) == ThrottleWait - (t - lastTime)

\* A variant of CancelTrailing that leaves the timer pending.
CancelNothing(timers, id) == timers

\* if (timeoutId) { clearTimeout(timeoutId); ... }
CancelTrailing(timers, id) == {t \in timers : t.id # id}

\* setTimeout(() => { ... fn.apply(this, args) }, remaining): the callback
\* keeps the arguments of the call that scheduled it.
ScheduleTrailing(timers, id, due, a) ==
    timers \cup {[id |-> id, due |-> due, args |-> a]}

\* A variant of Propagates in which the wrapper swallows what fn throws.
Swallowed(threw) == FALSE

\* fn.apply(...) stands in no try block: what fn throws leaves the wrapper
\* (on the leading path) or the timer callback (on the trailing path).
Propagates(threw) == threw

\* A variant of BeforeFn in which the assignment follows fn.apply, so that a
\* throw skips it.
AfterFn(threw, old, new) == IF threw THEN old ELSE new

\* lastTime = ...; timeoutId = null; fn.apply(this, args): the assignments
\* precede the invocation, so they take effect whether or not fn throws.
BeforeFn(threw, old, new) == new

\* fn.apply(this, args), recorded with its circumstances: the call whose
\* arguments it runs with, the number of calls made so far, the time the
\* execution was due, whether a pending timer was cleared for it, whether fn
\* threw and whether the exception left the wrapper.
ThrottleExec(a, kind, call, ncalls, due, cleared) ==
    [time |-> now, args |-> a, kind |-> kind, call |-> call, ncalls |-> ncalls,
     due |-> due, cleared |-> cleared,
     threw |-> FnThrows(a), uncaught |-> Propagates(FnThrows(a))]

\* One call of the throttled wrapper with argument a.
ThrottleCall ==
    /\ Len(tCalls) < MaxCalls
    /\ \E a \in Args :
        /\ tCalls' = Append(tCalls, [time |-> now, args |-> a])
        /\ IF Remaining(now) <= 0
           THEN /\ tTimers' = CancelTrailing(tTimers, tTimeoutId)
                /\ tTimeoutId' = BeforeFn(FnThrows(a), tTimeoutId, 0)
                /\ lastTime' = BeforeFn(FnThrows(a), lastTime, now)
                /\ tExecs' = Append(tExecs,
                                ThrottleExec(a, "leading", Len(tCalls) + 1,
                                             Len(tCalls) + 1, now,
                                             tTimeoutId # 0))
           ELSE IF tTimeoutId = 0
                THEN /\ tTimeoutId' = Len(tCalls) + 1
                     /\ tTimers' = ScheduleTrailing(tTimers, Len(tCalls) + 1,
                                                    now + Remaining(now), a)
                     /\ UNCHANGED <<lastTime, tExecs>>
                ELSE UNCHANGED <<lastTime, tTimeoutId, tTimers, tExecs>>
    /\ UNCHANGED <<fetchVars, now, debounceVars, hookVars>>

\* The trailing timer's callback runs.
ThrottleFire ==
    /\ \E t \in tTimers :
        /\ CanRun(t)
        /\ lastTime' = BeforeFn(FnThrows(t.args), lastTime, now)
        /\ tTimeoutId' = BeforeFn(FnThrows(t.args), tTimeoutId, 0)
        /\ tTimers' = tTimers \ {t}
        /\ tExecs' = Append(tExecs, ThrottleExec(t.args, "trailing", t.id, Len(tCalls),
                                                 t.due, FALSE))
    /\ UNCHANGED <<fetchVars, now, tCalls, debounceVars, hookVars>>

NextThrottle ==
    \/ Tick
    \/ ThrottleCall
    \/ ThrottleFire

SpecThrottle == InitTimers /\ [][NextThrottle]_vars

(***************************************************************************)
(* debounce(fn, delay)                                                     *)
(***************************************************************************)
\* A variant of ClearTimeout that leaves the previous timer pending.
ClearNothing(timers, id) == timers

\* clearTimeout(timeoutId): a handle that is undefined or already ran clears
\* nothing.
ClearTimeout(timers, id) == {t \in timers : t.id # id}

\* A variant of DebounceTimer whose callback runs fn with the context of the
\* wrapper's first call.
DebounceTimerFirstThis(id, due, a, c) ==
    [id |-> id, due |-> due, args |-> a,
     ctx |-> IF dCalls = <<>> THEN c ELSE dCalls[1].ctx]

\* const context = this; setTimeout(() => { fn.apply(context, args) }, delay):
\* the callback closes over the context and the arguments of its own call.
DebounceTimer(id, due, a, c) == [id |-> id, due |-> due, args |-> a, ctx |-> c]

\* A variant of TimerRan that leaves the callback registered.
TimerRepeats(timers, t) == timers

\* A setTimeout callback runs once: running it removes it from the pending
\* timers.
TimerRan(timers, t) == timers \ {t}

\* One call of the debounced wrapper with argument a and context (this) c.
\* The call record notes whether clearTimeout cancelled a pending timer.
DebounceCall ==
    /\ Len(dCalls) < MaxDebounceCalls
    /\ \E a \in Args, c \in Contexts :
        /\ dCalls' = Append(dCalls,
                        [time |-> now, args |-> a, ctx |-> c,
                         cancelled |-> ClearTimeout(dTimers, dTimeoutId) # dTimers])
        /\ dTimeoutId' = Len(dCalls) + 1
        /\ dTimers' = ClearTimeout(dTimers, dTimeoutId) \cup
                {DebounceTimer(Len(dCalls) + 1, now + dDelay, a, c)}
    /\ UNCHANGED <<fetchVars, now, throttleVars, dDelay, dExecs, hookVars>>

\* A pending timer's callback runs: fn.apply(context, args).  fn returns or
\* throws; nothing around the call catches.
DebounceFire ==
    /\ \E t \in dTimers :
        /\ CanRun(t)
        /\ dTimers' = TimerRan(dTimers, t)
        /\ dExecs' = Append(dExecs, [time |-> now, args |-> t.args, ctx |-> t.ctx,
                                     call |-> t.id, ncalls |-> Len(dCalls),
                                     threw |-> FnThrows(t.args),
                                     uncaught |-> Propagates(FnThrows(t.args))])
    /\ UNCHANGED <<fetchVars, now, throttleVars, dDelay, dTimeoutId, dCalls, hookVars>>

NextDebounce ==
    \/ Tick
    \/ DebounceCall
    \/ DebounceFire

SpecDebounce == InitTimers /\ [][NextDebounce]_vars

\* debounce(fn, 0), created one tick before the end of the observed time:
\* with delay 0 every timer is due as soon as it is registered, so the order
\* of calls and timer steps matters and the clock hardly does.
InitDebounceZero ==
    /\ InitFetch
    /\ ~optsOmitted
    /\ immediate
    /\ now = Epoch + MaxTicks - 1
    /\ InitThrottle
    /\ InitDebounce
    /\ dDelay = 0
    /\ InitUseDebounce
    /\ InitClipboard
    /\ InitListener
    /\ InitOnline
    /\ InitStorage
    /\ InitPure

SpecDebounceZero == InitDebounceZero /\ [][NextDebounce]_vars

(***************************************************************************)
(* storage: createStorage(type)                                            *)
(***************************************************************************)
\* JSON.stringify(value), followed by setItem's conversion of its argument
\* to a string: undefined has no JSON text and is stored as "undefined", NaN
\* is written as null, a circular structure makes stringify throw.
Stringify(v) ==
    [threw |-> v = "circular object",
     text |-> CASE v = "undefined" -> "undefined"
                [] v = "null" -> "null"
                [] v = "NaN" -> "null"
                [] v = "number 1" -> "1"
                [] v = "string 1" -> "\"1\""
                [] v = "object" -> "{\"a\":1}"
                [] v = "circular object" -> "none"]

\* JSON.parse(item): throws on a text that is not JSON.
Parse(text) ==
    [threw |-> text \notin {"null", "1", "\"1\"", "{\"a\":1}"},
     value |-> CASE text = "null" -> "null"
                 [] text = "1" -> "number 1"
                 [] text = "\"1\"" -> "string 1"
                 [] text = "{\"a\":1}" -> "object"
                 [] OTHER -> "none"]

\* try { ... } catch (err) { console.error(...) }: no error leaves the
\* wrapper.
TryCatch(err) == FALSE

\* set(key, value); quota: setItem throws (the quota is exceeded).
StSet ==
    /\ stOps < MaxOps
    /\ \E k \in Keys, v \in JsValues, quota \in BOOLEAN :
        LET str == Stringify(v)
            failed == str.threw \/ ~stAvailable \/ quota
        IN /\ stStore' = IF failed THEN stStore
                         ELSE [stStore EXCEPT ![k] = str.text]
           /\ stWritten' = IF failed THEN stWritten
                           ELSE [stWritten EXCEPT ![k] = v]
           /\ stLast' = [op |-> "set", key |-> k, value |-> v, dflt |-> "none",
                         result |-> "undefined", escaped |-> TryCatch(failed),
                         failed |-> failed]
    /\ stOps' = stOps + 1
    /\ UNCHANGED <<stAvailable, stRawWrites>>
    /\ UNCHANGED <<fetchVars, now, throttleVars, debounceVars, useDebounceVars,
                   clipboardVars, listenerVars, onlineVars,
                   pureVars>>

\* get(key, defaultValue)
StGet ==
    /\ stOps < MaxOps
    /\ \E k \in Keys, d \in Defaults :
        LET failed == ~stAvailable \/ (stStore[k] # NoItem /\ Parse(stStore[k]).threw)
        IN stLast' = [op |-> "get", key |-> k, value |-> "none", dflt |-> d,
                      result |-> IF failed \/ stStore[k] = NoItem
                                 THEN d
                                 ELSE Parse(stStore[k]).value,
                      escaped |-> TryCatch(failed), failed |-> failed]
    /\ stOps' = stOps + 1
    /\ UNCHANGED <<stAvailable, stStore, stWritten, stRawWrites>>
    /\ UNCHANGED <<fetchVars, now, throttleVars, debounceVars, useDebounceVars,
                   clipboardVars, listenerVars, onlineVars,
                   pureVars>>

\* remove(key)
StRemove ==
    /\ stOps < MaxOps
    /\ \E k \in Keys :
        LET failed == ~stAvailable
        IN /\ stStore' = IF failed THEN stStore ELSE [stStore EXCEPT ![k] = NoItem]
           /\ stWritten' = IF failed THEN stWritten
                           ELSE [stWritten EXCEPT ![k] = Absent]
           /\ stLast' = [op |-> "remove", key |-> k, value |-> "none",
                         dflt |-> "none", result |-> "undefined",
                         escaped |-> TryCatch(failed), failed |-> failed]
    /\ stOps' = stOps + 1
    /\ UNCHANGED <<stAvailable, stRawWrites>>
    /\ UNCHANGED <<fetchVars, now, throttleVars, debounceVars, useDebounceVars,
                   clipboardVars, listenerVars, onlineVars,
                   pureVars>>

\* clear()
StClear ==
    /\ stOps < MaxOps
    /\ LET failed == ~stAvailable
       IN /\ stStore' = IF failed THEN stStore ELSE [k \in Keys |-> NoItem]
          /\ stWritten' = IF failed THEN stWritten ELSE [k \in Keys |-> Absent]
          /\ stLast' = [op |-> "clear", key |-> "none", value |-> "none",
                        dflt |-> "none", result |-> "undefined",
                        escaped |-> TryCatch(failed), failed |-> failed]
    /\ stOps' = stOps + 1
    /\ UNCHANGED <<stAvailable, stRawWrites>>
    /\ UNCHANGED <<fetchVars, now, throttleVars, debounceVars, useDebounceVars,
                   clipboardVars, listenerVars, onlineVars,
                   pureVars>>

\* useTheme's toggleTheme, another writer of the same Storage object:
\* localStorage.setItem("theme", newTheme) stores the theme's name as it is,
\* not as JSON text; the wrapper's set of the key is no longer in the store.
\* When the Storage object throws, the store stays as it was.
StRawWrite ==
    /\ stRawWrites < MaxRawWrites
    /\ stRawWrites' = stRawWrites + 1
    /\ \E newTheme \in Themes :
        /\ stStore' = IF stAvailable THEN [stStore EXCEPT ![ThemeKey] = newTheme]
                       ELSE stStore
        /\ stWritten' = IF stAvailable THEN [stWritten EXCEPT ![ThemeKey] = Absent]
                         ELSE stWritten
    /\ UNCHANGED <<stAvailable, stLast, stOps>>
    /\ UNCHANGED <<fetchVars, now, throttleVars, debounceVars, useDebounceVars,
                   clipboardVars, listenerVars, onlineVars,
                   pureVars>>

NextStorage ==
    \/ StSet
    \/ StGet
    \/ StRemove
    \/ StClear
    \/ StRawWrite

\* The Storage object may be one whose every access throws (storage is
\* disabled or access is denied).
InitStorageAny ==
    /\ InitFetch
    /\ ~optsOmitted
    /\ immediate
    /\ now = Epoch
    /\ InitThrottle
    /\ InitDebounce
    /\ dDelay = DebounceDelay
    /\ InitUseDebounce
    /\ InitClipboard
    /\ InitListener
    /\ InitOnline
    /\ stAvailable \in BOOLEAN
    /\ stStore = [k \in Keys |-> NoItem]
    /\ stWritten = [k \in Keys |-> Absent]
    /\ stLast = NoOp
    /\ stOps = 0
    /\ stRawWrites = 0
    /\ InitPure

SpecStorage == InitStorageAny /\ [][NextStorage]_vars

(***************************************************************************)
(* useOnlineStatus()                                                       *)
(***************************************************************************)
\* The browser's connectivity changes: navigator.onLine flips and the
\* matching event is queued for dispatch on window.
OlBrowserChange ==
    /\ olFlips < MaxFlips
    /\ olFlips' = olFlips + 1
    /\ navOnline' = ~navOnline
    /\ olQueue' = Append(olQueue, IF navOnline THEN "offline" ELSE "online")
    /\ UNCHANGED <<olIsOnline, olLife, olListening, olSetAfterUnmount>>
    /\ UNCHANGED <<fetchVars, now, throttleVars, debounceVars, useDebounceVars,
                   clipboardVars, listenerVars, storageVars,
                   pureVars>>

\* handleOnline = () => setIsOnline(true); handleOffline = () =>
\* setIsOnline(false)
HandleEvent(ev) == ev = "online"

\* The oldest queued event is dispatched on window: the hook's handler for it
\* runs when its listeners are attached; otherwise the hook does not see it.
\* On an unmounted instance the setter changes nothing.
OlDeliver ==
    /\ olQueue # <<>>
    /\ olQueue' = Tail(olQueue)
    /\ olIsOnline' = IF olListening /\ olLife = "mounted"
                     THEN HandleEvent(Head(olQueue))
                     ELSE olIsOnline
    /\ olSetAfterUnmount' = (olSetAfterUnmount \/
                             (olListening /\ olLife = "unmounted"))
    /\ UNCHANGED <<navOnline, olLife, olListening, olFlips>>
    /\ UNCHANGED <<fetchVars, now, throttleVars, debounceVars, useDebounceVars,
                   clipboardVars, listenerVars, storageVars,
                   pureVars>>

\* The effect runs after the first render: it attaches the two listeners and
\* does not read navigator.onLine again.
OlAttach ==
    /\ olLife = "init"
    /\ olLife' = "mounted"
    /\ olListening' = TRUE
    /\ UNCHANGED <<navOnline, olIsOnline, olSetAfterUnmount, olQueue, olFlips>>
    /\ UNCHANGED <<fetchVars, now, throttleVars, debounceVars, useDebounceVars,
                   clipboardVars, listenerVars, storageVars,
                   pureVars>>

\* The component unmounts: React commits the deletion; the effect's cleanup
\* is a passive effect and runs later, the listeners stay attached until then.
OlUnmount ==
    /\ olLife = "mounted"
    /\ olLife' = "unmounted"
    /\ UNCHANGED <<navOnline, olIsOnline, olListening, olSetAfterUnmount, olQueue,
                   olFlips>>
    /\ UNCHANGED <<fetchVars, now, throttleVars, debounceVars, useDebounceVars,
                   clipboardVars, listenerVars, storageVars,
                   pureVars>>

\* The cleanup after the unmount: it removes the two listeners.
OlUnmountCleanup ==
    /\ olLife = "unmounted"
    /\ olListening
    /\ olListening' = FALSE
    /\ UNCHANGED <<navOnline, olIsOnline, olLife, olSetAfterUnmount, olQueue,
                   olFlips>>
    /\ UNCHANGED <<fetchVars, now, throttleVars, debounceVars, useDebounceVars,
                   clipboardVars, listenerVars, storageVars,
                   pureVars>>

NextOnline ==
    \/ OlBrowserChange
    \/ OlDeliver
    \/ OlAttach
    \/ OlUnmount
    \/ OlUnmountCleanup

\* The first render may find the browser online or offline.
InitOnlineAny ==
    /\ InitFetch
    /\ ~optsOmitted
    /\ immediate
    /\ now = Epoch
    /\ InitThrottle
    /\ InitDebounce
    /\ dDelay = DebounceDelay
    /\ InitUseDebounce
    /\ InitClipboard
    /\ InitListener
    /\ navOnline \in BOOLEAN
    /\ olIsOnline = navOnline
    /\ olLife = "init"
    /\ olListening = FALSE
    /\ olSetAfterUnmount = FALSE
    /\ olQueue \in {<<>>, <<IF navOnline THEN "online" ELSE "offline">>}
    /\ olFlips = 0
    /\ InitStorage
    /\ InitPure

SpecOnline == InitOnlineAny /\ [][NextOnline]_vars

(***************************************************************************)
(* useEventListener(eventName, handler, element)                           *)
(***************************************************************************)
\* useEffect(() => { savedHandler.current = handler; }, [handler])
SaveHandler(saved, h) == h

\* if (!element || !element.addEventListener) return;
\* element.addEventListener(eventName, eventListener): the listener is a new
\* closure at every run of the effect.
Attach(listeners, id, el, ev) ==
    IF el \in DomElements
    THEN listeners \cup {[id |-> id, element |-> el, type |-> ev]}
    ELSE listeners

\* return () => { element.removeEventListener(eventName, eventListener); }:
\* the cleanup of the effect run that registered listener id; an effect run
\* that returned early has no cleanup.
Detach(listeners, id) == {l \in listeners : l.id # id}

\* The listener effect, run for eventName ev and element el after the
\* cleanup of its previous run.
ListenerEffect(ev, el) ==
    LET detached == Detach(elListeners, elAdds)
    IN /\ elRemoves' = elRemoves + Cardinality(elListeners \ detached)
       /\ elAdds' = IF el \in DomElements THEN elAdds + 1 ELSE elAdds
       /\ elListeners' = Attach(detached, elAdds + 1, el, ev)

\* Both effects run after the first render, in the order of their
\* declaration.
ElMount ==
    /\ elLife = "init"
    /\ elLife' = "mounted"
    /\ elSaved' = SaveHandler(elSaved, elHandler)
    /\ ListenerEffect(elEvent, elElement)
    /\ UNCHANGED <<elHandler, elEvent, elElement, elPending, elRenders,
                   elDispatches, elLast>>
    /\ UNCHANGED <<fetchVars, now, throttleVars, debounceVars, useDebounceVars,
                   clipboardVars, onlineVars, storageVars,
                   pureVars>>

\* The effects a render with handler h, eventName ev and element el schedules:
\* each effect whose dependencies differ from the previous render's.
Scheduled(h, ev, el) ==
    (IF h # elHandler THEN {"handler"} ELSE {}) \cup
    (IF ev # elEvent \/ el # elElement THEN {"listener"} ELSE {})

\* The parent renders the component with handler h, eventName ev and element
\* el and React commits the render; the effects it schedules are passive and
\* run later.  React flushes the effects of one render before the next.
ElRender ==
    /\ elLife = "mounted"
    /\ elPending = {}
    /\ elRenders < MaxElRenders
    /\ \E h \in Handlers, ev \in EventNames, el \in Elements :
        /\ elHandler' = h
        /\ elEvent' = ev
        /\ elElement' = el
        /\ elPending' = Scheduled(h, ev, el)
    /\ elRenders' = elRenders + 1
    /\ UNCHANGED <<elLife, elSaved, elListeners, elAdds, elRemoves, elDispatches,
                   elLast>>
    /\ UNCHANGED <<fetchVars, now, throttleVars, debounceVars, useDebounceVars,
                   clipboardVars, onlineVars, storageVars,
                   pureVars>>

\* React flushes the effects of the latest render: the listener effect's
\* cleanup, then the bodies in the order of their declaration.
ElFlushEffects ==
    /\ elLife = "mounted"
    /\ elPending # {}
    /\ elPending' = {}
    /\ elSaved' = IF "handler" \in elPending THEN SaveHandler(elSaved, elHandler)
                  ELSE elSaved
    /\ IF "listener" \in elPending
       THEN ListenerEffect(elEvent, elElement)
       ELSE UNCHANGED <<elListeners, elAdds, elRemoves>>
    /\ UNCHANGED <<elLife, elHandler, elEvent, elElement, elRenders, elDispatches,
                   elLast>>
    /\ UNCHANGED <<fetchVars, now, throttleVars, debounceVars, useDebounceVars,
                   clipboardVars, onlineVars, storageVars,
                   pureVars>>

\* The objects an event dispatched on target passes on its way up: the div is
\* an element of the document, so its events bubble to window.
EventPath(target) == IF target = "div" THEN {"div", "window"} ELSE {target}

\* An event of some type is dispatched on some DOM element: every listener
\* the hook has registered for the type on an object of the event's path runs
\* savedHandler.current(event).
ElDispatch ==
    /\ elDispatches < MaxDispatches
    /\ \E ty \in EventNames, target \in DomElements :
        LET hit == {l \in elListeners :
                        l.element \in EventPath(target) /\ l.type = ty}
        IN elLast' = [type |-> ty, target |-> target,
                      count |-> Cardinality(hit),
                      handler |-> IF hit = {} THEN NoHandler ELSE elSaved]
    /\ elDispatches' = elDispatches + 1
    /\ UNCHANGED <<elLife, elHandler, elEvent, elElement, elSaved, elPending,
                   elListeners, elAdds, elRemoves, elRenders>>
    /\ UNCHANGED <<fetchVars, now, throttleVars, debounceVars, useDebounceVars,
                   clipboardVars, onlineVars, storageVars,
                   pureVars>>

\* The component unmounts: React commits the deletion; the listener effect's
\* cleanup is a passive effect and runs later.
ElUnmount ==
    /\ elLife = "mounted"
    /\ elPending = {}
    /\ elLife' = "unmounted"
    /\ elPending' = {"unmount"}
    /\ UNCHANGED <<elHandler, elEvent, elElement, elSaved, elListeners, elAdds,
                   elRemoves, elRenders, elDispatches, elLast>>
    /\ UNCHANGED <<fetchVars, now, throttleVars, debounceVars, useDebounceVars,
                   clipboardVars, onlineVars, storageVars,
                   pureVars>>

\* The cleanup after the unmount: removeEventListener of the latest listener.
ElUnmountCleanup ==
    /\ elLife = "unmounted"
    /\ elPending = {"unmount"}
    /\ elPending' = {}
    /\ elListeners' = Detach(elListeners, elAdds)
    /\ elRemoves' = elRemoves + Cardinality(elListeners \ Detach(elListeners, elAdds))
    /\ UNCHANGED <<elLife, elHandler, elEvent, elElement, elSaved, elAdds,
                   elRenders, elDispatches, elLast>>
    /\ UNCHANGED <<fetchVars, now, throttleVars, debounceVars, useDebounceVars,
                   clipboardVars, onlineVars, storageVars,
                   pureVars>>

NextListener ==
    \/ ElMount
    \/ ElRender
    \/ ElFlushEffects
    \/ ElDispatch
    \/ ElUnmount
    \/ ElUnmountCleanup

SpecListener == InitTimers /\ [][NextListener]_vars

(***************************************************************************)
(* useClipboard(timeout)                                                   *)
(***************************************************************************)
\* copy(text): navigator.clipboard.writeText(text) returns a pending promise.
CbCopy ==
    /\ cbCopies < MaxCopies
    /\ cbCopies' = cbCopies + 1
    /\ cbWrites' = cbWrites \cup {cbCopies + 1}
    /\ UNCHANGED <<cbCopied, cbTimers, cbLastSuccess>>
    /\ UNCHANGED <<fetchVars, now, throttleVars, debounceVars, useDebounceVars,
                   listenerVars, onlineVars, storageVars,
                   pureVars>>

\* writeText resolves: setCopied(true) and a new reset timer; a reset timer
\* of an earlier copy stays pending.
CbWriteResolve ==
    /\ \E w \in cbWrites :
        /\ cbWrites' = cbWrites \ {w}
        /\ cbCopied' = TRUE
        /\ cbTimers' = cbTimers \cup {[id |-> w, due |-> now + ClipTimeout]}
        /\ cbLastSuccess' = now
    /\ UNCHANGED cbCopies
    /\ UNCHANGED <<fetchVars, now, throttleVars, debounceVars, useDebounceVars,
                   listenerVars, onlineVars, storageVars,
                   pureVars>>

\* writeText rejects: the promise has no rejection handler, the hook's state
\* stays as it is.
CbWriteReject ==
    /\ \E w \in cbWrites : cbWrites' = cbWrites \ {w}
    /\ UNCHANGED <<cbCopied, cbTimers, cbCopies, cbLastSuccess>>
    /\ UNCHANGED <<fetchVars, now, throttleVars, debounceVars, useDebounceVars,
                   listenerVars, onlineVars, storageVars,
                   pureVars>>

\* A reset timer's callback runs: setCopied(false).
CbFire ==
    /\ \E t \in cbTimers :
        /\ t.due <= now
        /\ cbTimers' = cbTimers \ {t}
        /\ cbCopied' = FALSE
    /\ UNCHANGED <<cbWrites, cbCopies, cbLastSuccess>>
    /\ UNCHANGED <<fetchVars, now, throttleVars, debounceVars, useDebounceVars,
                   listenerVars, onlineVars, storageVars,
                   pureVars>>

NextClipboard ==
    \/ Tick
    \/ CbCopy
    \/ CbWriteResolve
    \/ CbWriteReject
    \/ CbFire

SpecClipboard == InitTimers /\ [][NextClipboard]_vars

(***************************************************************************)
(* useDebounce(value, delay)                                               *)
(***************************************************************************)
\* setTimeout(..., delay) called at time t.
UdDue(t, d) == t + d

\* return () => { clearTimeout(handler); }
UdCleanup(timers, id) == {t \in timers : t.id # id}

\* The effect body: the callback closes over the value of the render the
\* effect belongs to.
UdEffect(timers, id, v, d) ==
    timers \cup {[id |-> id, due |-> UdDue(now, d), value |-> v]}

\* The effect runs after the first render.
UdMount ==
    /\ udLife = "init"
    /\ udLife' = "mounted"
    /\ udHandler' = udHandler + 1
    /\ udTimers' = UdEffect(udTimers, udHandler + 1, udValue, udDelay)
    /\ UNCHANGED <<udValue, udDelay, udDebounced, udPending, udSince, udPrev,
                   udLastSet, udCancelled, udRenders>>
    /\ UNCHANGED <<fetchVars, now, throttleVars, debounceVars, clipboardVars,
                   listenerVars, onlineVars, storageVars,
                   pureVars>>

\* The parent renders the component with value v and delay d and React
\* commits the render.  When one of them differs from the previous render the
\* effect is scheduled: its cleanup and body are passive and run later, the
\* previous timer stays pending until then.  React flushes the effects of one
\* render before the next.
UdRender ==
    /\ udLife = "mounted"
    /\ udPending = NoEffect
    /\ udRenders < MaxUdRenders
    /\ \E v \in UdValues, d \in UdDelays :
        /\ udValue' = v
        /\ udDelay' = d
        /\ udSince' = IF v # udValue THEN now ELSE udSince
        /\ udPrev' = IF v # udValue THEN udValue ELSE udPrev
        /\ udPending' = IF v # udValue \/ d # udDelay THEN "effect" ELSE NoEffect
    /\ udRenders' = udRenders + 1
    /\ UNCHANGED <<udLife, udDebounced, udHandler, udTimers, udLastSet,
                   udCancelled>>
    /\ UNCHANGED <<fetchVars, now, throttleVars, debounceVars, clipboardVars,
                   listenerVars, onlineVars, storageVars,
                   pureVars>>

\* React flushes the effect of the latest render: the previous run's cleanup,
\* then the body with the value and delay of that render.
UdFlushEffects ==
    /\ udLife = "mounted"
    /\ udPending = "effect"
    /\ udPending' = NoEffect
    /\ udHandler' = udHandler + 1
    /\ udTimers' = UdEffect(UdCleanup(udTimers, udHandler), udHandler + 1,
                            udValue, udDelay)
    /\ udCancelled' = udCancelled +
            Cardinality(udTimers \ UdCleanup(udTimers, udHandler))
    /\ UNCHANGED <<udLife, udValue, udDelay, udDebounced, udSince, udPrev,
                   udLastSet, udRenders>>
    /\ UNCHANGED <<fetchVars, now, throttleVars, debounceVars, clipboardVars,
                   listenerVars, onlineVars, storageVars,
                   pureVars>>

\* A pending timer's callback runs: setDebouncedValue(value), which changes
\* nothing on an unmounted instance.  The render it may cause has the same
\* value and delay, so it schedules no effect.
UdFire ==
    /\ \E t \in udTimers :
        /\ CanRun(t)
        /\ udTimers' = udTimers \ {t}
        /\ udDebounced' = IF udLife = "unmounted" THEN udDebounced ELSE t.value
        /\ udLastSet' = [time |-> now, value |-> t.value, input |-> udValue,
                         since |-> udSince, delay |-> udDelay, life |-> udLife]
    /\ UNCHANGED <<udLife, udValue, udDelay, udHandler, udPending, udSince, udPrev,
                   udCancelled, udRenders>>
    /\ UNCHANGED <<fetchVars, now, throttleVars, debounceVars, clipboardVars,
                   listenerVars, onlineVars, storageVars,
                   pureVars>>

\* The component unmounts: React commits the deletion; the effect's cleanup
\* is a passive effect and runs later, the timer stays pending until then.
UdUnmount ==
    /\ udLife = "mounted"
    /\ udPending = NoEffect
    /\ udLife' = "unmounted"
    /\ udPending' = "unmount"
    /\ UNCHANGED <<udValue, udDelay, udDebounced, udHandler, udTimers, udSince,
                   udPrev, udLastSet, udCancelled, udRenders>>
    /\ UNCHANGED <<fetchVars, now, throttleVars, debounceVars, clipboardVars,
                   listenerVars, onlineVars, storageVars,
                   pureVars>>

\* The cleanup after the unmount: clearTimeout of the latest handler.
UdUnmountCleanup ==
    /\ udLife = "unmounted"
    /\ udPending = "unmount"
    /\ udPending' = NoEffect
    /\ udTimers' = UdCleanup(udTimers, udHandler)
    /\ udCancelled' = udCancelled +
            Cardinality(udTimers \ UdCleanup(udTimers, udHandler))
    /\ UNCHANGED <<udLife, udValue, udDelay, udDebounced, udHandler, udSince,
                   udPrev, udLastSet, udRenders>>
    /\ UNCHANGED <<fetchVars, now, throttleVars, debounceVars, clipboardVars,
                   listenerVars, onlineVars, storageVars,
                   pureVars>>

NextUseDebounce ==
    \/ Tick
    \/ UdMount
    \/ UdRender
    \/ UdFlushEffects
    \/ UdFire
    \/ UdUnmount
    \/ UdUnmountCleanup

SpecUseDebounce == InitTimers /\ [][NextUseDebounce]_vars

(***************************************************************************)
(* classNames(...args)                                                     *)
(***************************************************************************)
\* JavaScript values as classNames tells them apart.  A string is a sequence
\* of characters; an object is the sequence of its entries, each a key and
\* the truthiness of its value; an array is the sequence of its elements.
Falsy == [t |-> "falsy", s |-> <<>>, entries |-> <<>>, items |-> <<>>]
Other == [t |-> "other", s |-> <<>>, entries |-> <<>>, items |-> <<>>]
Str(s) == [t |-> "string", s |-> s, entries |-> <<>>, items |-> <<>>]
Obj(entries) == [t |-> "object", s |-> <<>>, entries |-> entries, items |-> <<>>]
Arr(items) == [t |-> "array", s |-> <<>>, entries |-> <<>>, items |-> items]

\* The concatenation of a sequence of sequences.
RECURSIVE Flat(_)
Flat(ss) == IF ss = <<>> THEN <<>> ELSE Head(ss) \o Flat(Tail(ss))

\* str.split(" "): the pieces between the spaces, empty pieces included.
RECURSIVE Split(_)
Split(s) ==
    IF \A i \in 1..Len(s) : s[i] # " "
    THEN <<s>>
    ELSE LET i == CHOOSE j \in 1..Len(s) :
                    s[j] = " " /\ \A k \in 1..(j - 1) : s[k] # " "
         IN <<SubSeq(s, 1, i - 1)>> \o Split(SubSeq(s, i + 1, Len(s)))

\* array.join(" ")
RECURSIVE Join(_)
Join(ss) ==
    IF ss = <<>> THEN <<>>
    ELSE IF Len(ss) = 1 THEN ss[1]
    ELSE ss[1] \o <<" ">> \o Join(Tail(ss))

\* Object.entries(arg).filter(([_, value]) => Boolean(value)).map(([key]) => key)
TruthyKeys(entries) ==
    LET keep == SelectSeq(entries, LAMBDA e : e.value)
    IN [i \in 1..Len(keep) |-> keep[i].key]

\* The callback of args.flatMap, and classNames itself.  For an array the
\* callback returns arg.flatMap((a) => classNames(a)): one string per
\* element, the joined result of the nested call.
RECURSIVE ClassNames(_), Parts(_)
Parts(arg) ==
    CASE arg.t = "falsy" -> <<>>
      [] arg.t = "string" -> Split(arg.s)
      [] arg.t = "array" -> [i \in 1..Len(arg.items) |-> ClassNames(<<arg.items[i]>>)]
      [] arg.t = "object" -> TruthyKeys(arg.entries)
      [] OTHER -> <<>>

ClassNames(args) == Join(Flat([i \in 1..Len(args) |-> Parts(args[i])]))

\* The arguments of a call: a few values of every kind, arrays of them, and
\* arrays with an array inside.
CnStrings == {<<"a">>, <<"b">>, <<"a", " ", "b">>, <<"a", " ", " ", "b">>}
CnAtoms ==
    {Falsy, Other} \cup {Str(s) : s \in CnStrings}
    \cup {Obj(<<[key |-> <<"a">>, value |-> TRUE], [key |-> <<"b">>, value |-> FALSE]>>),
          Obj(<<[key |-> <<"b">>, value |-> TRUE]>>)}
CnElements == {Falsy, Str(<<"a">>), Str(<<"b">>)}
CnArrays ==
    {Arr(<<>>)} \cup {Arr(<<x>>) : x \in CnElements}
    \cup {Arr(<<x, y>>) : x \in CnElements, y \in CnElements}
CnNested == {Arr(<<Str(<<"b">>), a>>) : a \in CnArrays}
CnValues == CnAtoms \cup CnArrays \cup CnNested
CnInputs == UNION {[1..n -> CnValues] : n \in 0..MaxArity}

\* classNames(...cnArgs) is called.
CnCall ==
    /\ cnResult = NotCalled
    /\ cnResult' = ClassNames(cnArgs)
    /\ UNCHANGED <<cnArgs, fdDate, fdResult>>
    /\ UNCHANGED <<fetchVars, now, throttleVars, debounceVars, useDebounceVars,
                   clipboardVars, listenerVars, onlineVars, storageVars>>

NextClassNames == CnCall

InitClassNames ==
    /\ InitFetch
    /\ ~optsOmitted
    /\ immediate
    /\ now = Epoch
    /\ InitThrottle
    /\ InitDebounce
    /\ dDelay = DebounceDelay
    /\ InitUseDebounce
    /\ InitClipboard
    /\ InitListener
    /\ InitOnline
    /\ InitStorage
    /\ cnArgs \in CnInputs
    /\ cnResult = NotCalled
    /\ fdDate = [valid |-> TRUE, diff |-> 0]
    /\ fdResult = FdNotCalled

SpecClassNames == InitClassNames /\ [][NextClassNames]_vars

(***************************************************************************)
(* formatDate(date, {relative: true})                                      *)
(***************************************************************************)
MsPerSecond == 1000
SecondsPerMinute == 60
MinutesPerHour == 60
HoursPerDay == 24
MsPerMinute == MsPerSecond * SecondsPerMinute
MsPerHour == MsPerMinute * MinutesPerHour
MsPerDay == MsPerHour * HoursPerDay

\* Math.floor(a / b) for b > 0
Floor(a, b) == a \div b

\* A variant of Plural that also adds the s for one.
PluralFromOne(n) == n >= 1

\* `${n} unit${n > 1 ? "s" : ""} ago`: whether the s is appended.
Plural(n) == n > 1

\* The string `${n} ${unit}${n > 1 ? "s" : ""} ago`, kept as its parts.
Ago(n, unit) == [unit |-> unit, n |-> n, plural |-> Plural(n)]
JustNow == [unit |-> "just now", n |-> 0, plural |-> FALSE]
EmptyString == [unit |-> "", n |-> 0, plural |-> FALSE]

\* The relative branch, for diff = now - d.getTime().
FormatRelative(diff) ==
    LET seconds == Floor(diff, MsPerSecond)
        minutes == Floor(seconds, SecondsPerMinute)
        hours == Floor(minutes, MinutesPerHour)
        days == Floor(hours, HoursPerDay)
    IN IF seconds < SecondsPerMinute THEN JustNow
       ELSE IF minutes < MinutesPerHour THEN Ago(minutes, "minute")
       ELSE IF hours < HoursPerDay THEN Ago(hours, "hour")
       ELSE Ago(days, "day")

\* formatDate(date, {relative: true})
FormatDate(date) ==
    IF ~date.valid THEN EmptyString ELSE FormatRelative(date.diff)

\* Distances between the date and now, around every unit boundary; a few
\* dates lie in the future.
FdDiffs ==
    {days * MsPerDay + h * MsPerHour + m * MsPerMinute + s * MsPerSecond + ms :
        days \in 0..MaxDays,
        h \in {0, 1, HoursPerDay - 1},
        m \in {0, 1, MinutesPerHour - 1},
        s \in {0, 1, SecondsPerMinute - 1},
        ms \in {0, MsPerSecond - 1}}
    \cup {0 - 1, 0 - MsPerMinute, 0 - MsPerDay}

\* formatDate(fdDate, {relative: true}) is called.
FdCall ==
    /\ fdResult = FdNotCalled
    /\ fdResult' = FormatDate(fdDate)
    /\ UNCHANGED <<cnArgs, cnResult, fdDate>>
    /\ UNCHANGED <<fetchVars, now, throttleVars, debounceVars, useDebounceVars,
                   clipboardVars, listenerVars, onlineVars, storageVars>>

NextFormatDate == FdCall

InitFormatDate ==
    /\ InitFetch
    /\ ~optsOmitted
    /\ immediate
    /\ now = Epoch
    /\ InitThrottle
    /\ InitDebounce
    /\ dDelay = DebounceDelay
    /\ InitUseDebounce
    /\ InitClipboard
    /\ InitListener
    /\ InitOnline
    /\ InitStorage
    /\ cnArgs = <<>>
    /\ cnResult = NotCalled
    /\ fdDate \in [valid : BOOLEAN, diff : FdDiffs]
    /\ fdResult = FdNotCalled

SpecFormatDate == InitFormatDate /\ [][NextFormatDate]_vars

(***************************************************************************)
(* Properties of useFetch                                                  *)
(***************************************************************************)
Live(r) == reqs[r].phase # "done" /\ ~reqs[r].aborted

\* The request r settles in this step.
Settles(r) == reqs[r].phase # "done" /\ reqs'[r].phase = "done"

ExposedUnchanged == data' = data /\ error' = error /\ loading' = loading

\* The triggers so far: the mount and each change of url/options when
\* immediate, and each refetch call.
Triggers ==
    IF life = "init" THEN 0
    ELSE (IF immediate THEN 1 + changes ELSE 0) + refetches

\* C1: on a mounted instance, when refetch() starts a request while the
\* request of the previous refetch() is unsettled, the settling of the earlier
\* request changes none of data, error and loading.
C1_SupersededRefetchNeverWrites ==
    [][\A r \in 1..(Len(reqs) - 1) :
        (/\ life = "mounted"
         /\ reqs[r].trigger = "refetch"
         /\ reqs[r + 1].trigger = "refetch"
         /\ Settles(r))
        => ExposedUnchanged]_vars

\* C3: after the component has unmounted no setter of the hook instance is
\* invoked, however the requests in flight settle (a refetch() the caller
\* makes after the unmount is the caller's doing and is left aside).
C3_NoSetterAfterUnmount ==
    [][(life = "unmounted" /\ ~setAfterUnmount /\ refetches' = refetches)
        => ~setAfterUnmount']_vars

\* C5: at most one request of the instance is in flight with a signal that
\* has not been aborted.
C5_AtMostOneLiveRequest ==
    Cardinality({r \in 1..Len(reqs) : Live(r)}) <= 1

\* C6: as long as the parent has not rendered the component again, and once
\* the effects of the latest render have been flushed, the number of requests
\* issued equals the number of triggers; with immediate, unchanged inputs and
\* no refetch that is exactly one request, and once it has settled loading is
\* false.
C6_OneRequestPerTrigger ==
    (life # "init" /\ rerenders = 0 /\ pending = NoEffect) =>
        /\ Len(reqs) = Triggers
        /\ (life = "mounted" /\ immediate /\ refetches = 0 /\ changes = 0)
            => /\ Len(reqs) = 1
               /\ reqs[1].phase = "done" => loading = FALSE

\* C7: with immediate = false, after one refetch() and nothing else, the one
\* request is not aborted by the hook, and once settled its outcome is exposed
\* with loading = false.
C7_LoneRefetchRunsToCompletion ==
    (/\ life = "mounted"
     /\ ~immediate
     /\ refetches = 1
     /\ changes = 0
     /\ rerenders = 0)
    => /\ Len(reqs) = 1
       /\ ~reqs[1].aborted
       /\ reqs[1].phase = "done"
            => /\ loading = FALSE
               /\ reqs[1].outcome = "success" => data = 1
               /\ reqs[1].outcome # "success" => error # NoError

\* C8: while the most recently started request of a mounted instance has
\* neither settled nor been aborted, loading is true.
C8_LoadingWhileLatestInFlight ==
    (life = "mounted" /\ Len(reqs) > 0 /\ Live(Len(reqs))) => loading = TRUE

\* C10: with immediate = true, a request that was in flight when a change of
\* url/options started the next one has been aborted, and its settling changes
\* none of data, error and loading.
C10_StaleInputsRequestNeverWrites ==
    [][\A r \in 1..(Len(reqs) - 1) :
        (/\ immediate
         /\ reqs[r + 1].trigger = "inputs"
         /\ Settles(r))
        => (reqs[r].aborted /\ ExposedUnchanged)]_vars

\* The genuine failures: fetch rejects, the status is not ok, the body does
\* not decode.
Failures == {"network", "http", "decode"}

\* Request r is in flight and no other request is.
OnlyInFlight(r) ==
    /\ reqs[r].phase # "done"
    /\ \A q \in 1..Len(reqs) : q # r => reqs[q].phase = "done"

\* The failure of request r as the hook stores it.
FailureOf(r) == [req |-> r, kind |-> reqs[r].outcome]

\* C11: when the only in-flight request of an instance that has not
\* unmounted ends in a genuine failure, the hook's state becomes loading =
\* false with that failure as error, and data keeps the value it had; a
\* non-success status never changes data.
C11_FailureIsExposed ==
    [][\A r \in 1..Len(reqs) :
        (/\ life # "unmounted"
         /\ OnlyInFlight(r)
         /\ Settles(r)
         /\ reqs'[r].outcome \in Failures)
        => /\ loading' = FALSE
           /\ error' = FailureOf(r)'
           /\ data' = data]_vars

\* C11's case: the one request of a mounted instance got a non-success status
\* and the component has rendered the failure.
C11_Witness ==
    /\ life = "mounted"
    /\ Len(reqs) = 1
    /\ reqs[1].outcome = "http"
    /\ shown = [data |-> NullData, error |-> [req |-> 1, kind |-> "http"],
                loading |-> FALSE]
    /\ loading = FALSE

\* The instance was mounted with immediate = true and nothing else triggered
\* a request.
MountOnly ==
    /\ life = "mounted"
    /\ immediate
    /\ refetches = 0
    /\ changes = 0
    /\ rerenders = 0

\* C12: mounted with immediate = true and no other trigger, loading is true
\* (in the state and in what the latest render returned) until the response is
\* handled; when the request succeeds the hook's state becomes loading =
\* false, the decoded body as data and error = null.
C12_SuccessPath ==
    [][MountOnly' =>
        /\ reqs'[1].phase # "done" => (loading' /\ shown'.loading)
        /\ (Len(reqs) >= 1 /\ Settles(1) /\ reqs'[1].outcome = "success")
             => (loading' = FALSE /\ data' = 1 /\ error' = NoError)]_vars

\* C12's case: the mount request succeeded and the component has rendered
\* its body.
C12_Witness ==
    /\ MountOnly
    /\ reqs[1].outcome = "success"
    /\ shown = [data |-> 1, error |-> NoError, loading |-> FALSE]

\* C13: data changes only in a step in which a request of an instance that
\* has not unmounted succeeds, and then to that request's decoded body.
C13_DataChangesOnlyOnSuccess ==
    [][data' # data =>
        \E r \in 1..Len(reqs) :
            /\ life # "unmounted"
            /\ Settles(r)
            /\ reqs'[r].outcome = "success"
            /\ data' = r]_vars

\* C13's case: the body of an earlier success is still exposed after a later
\* request failed.
C13_Witness ==
    /\ data # NullData
    /\ error # NoError
    /\ error.req > data

\* An error value is null or the genuine failure of a request.
GenuineOrNull(e) ==
    e # NoError => (e.kind \in Failures /\ reqs[e.req].outcome = e.kind)

\* C14: error, in the state and in what the latest render returned, is null
\* or the genuine failure of a request, never the AbortError of an aborted one.
C14_AbortNeverStored ==
    /\ GenuineOrNull(error)
    /\ GenuineOrNull(shown.error)

\* C14's case: a request of the mounted instance ended in an AbortError.
C14_Witness ==
    /\ life = "mounted"
    /\ \E r \in 1..Len(reqs) : reqs[r].outcome = "abort"

\* C15: with immediate = false and no refetch so far, no request has been
\* issued and the hook exposes loading = false, data = null, error = null.
C15_IdleUntilRefetch ==
    (~immediate /\ refetches = 0) =>
        /\ reqs = <<>>
        /\ loading = FALSE /\ data = NullData /\ error = NoError
        /\ shown = [data |-> NullData, error |-> NoError, loading |-> FALSE]

\* C15's case: url/options changed and the parent rendered again.
C15_Witness ==
    /\ life = "mounted"
    /\ ~immediate
    /\ refetches = 0
    /\ changes >= 1
    /\ rerenders >= 1

\* C16: the promise of no fetchData call is rejected; it is fulfilled once the
\* request has settled, whatever the outcome, and on an instance that has not
\* unmounted a success or genuine failure becomes the hook's state.
C16_PromiseNeverRejects ==
    [][\A r \in 1..Len(reqs') :
        /\ reqs'[r].promise # "rejected"
        /\ reqs'[r].phase = "done" <=> reqs'[r].promise = "fulfilled"
        /\ (r <= Len(reqs) /\ Settles(r) /\ life # "unmounted")
             => /\ reqs'[r].outcome = "success" => data' = r
                /\ reqs'[r].outcome \in Failures => error' = FailureOf(r)'
                /\ loading' = FALSE]_vars

\* C16's case: one request has ended in a genuine failure and another in an
\* abort, and both promises are fulfilled.
C16_Witness ==
    \E r, p \in 1..Len(reqs) :
        /\ reqs[r].outcome \in Failures
        /\ reqs[p].outcome = "abort"
        /\ reqs[r].promise = "fulfilled"
        /\ reqs[p].promise = "fulfilled"

(***************************************************************************)
(* Properties of throttle                                                  *)
(***************************************************************************)
\* C2: every trailing execution is invoked with the arguments of the last
\* call made before it ran.
C2_TrailingUsesLastArgs ==
    \A i \in 1..Len(tExecs) :
        tExecs[i].kind = "trailing"
            => tExecs[i].args = tCalls[tExecs[i].ncalls].args

\* C9: any two executions of fn are at least wait apart in clock time, the
\* clock being Date.now(), which the wrapper itself reads.
C9_ExecutionsWaitApart ==
    \A i, j \in 1..Len(tExecs) :
        i < j => tExecs[j].time - tExecs[i].time >= ThrottleWait

\* Call k of the throttled wrapper did not execute fn itself.
Deferred(k) ==
    ~\E i \in 1..Len(tExecs) : tExecs[i].kind = "leading" /\ tExecs[i].call = k

\* C17: the first call, and every call made at least wait after each earlier
\* execution of fn, executes fn during the call, with its own arguments.
C17_LeadingEdge ==
    \A k \in 1..Len(tCalls) :
        (\A i \in 1..Len(tExecs) :
            tExecs[i].ncalls < k => tCalls[k].time - tExecs[i].time >= ThrottleWait)
        => \E i \in 1..Len(tExecs) :
                /\ tExecs[i].kind = "leading"
                /\ tExecs[i].call = k
                /\ tExecs[i].time = tCalls[k].time
                /\ tExecs[i].args = tCalls[k].args

\* C17's case: a call made wait or more after a trailing execution executed
\* fn at once.
C17_Witness ==
    \E i \in 2..Len(tExecs) :
        /\ tExecs[i].kind = "leading"
        /\ tExecs[i - 1].kind = "trailing"

\* C18: a trailing execution runs the timer of a call that was deferred
\* inside the window opened by the execution before it, set for the close of
\* that window, and it runs when the window closes, not before; one call
\* alone gives one execution and no timer; and once the last call was
\* deferred, fn is executed exactly once more: one timer is pending and fn has
\* not run since, or none is pending and fn has run exactly once since.
C18_TrailingIffDeferred ==
    /\ \A i \in 1..Len(tExecs) :
        tExecs[i].kind = "trailing"
            => /\ i >= 2
               /\ Deferred(tExecs[i].call)
               /\ tExecs[i].due = tExecs[i - 1].time + ThrottleWait
               /\ tCalls[tExecs[i].call].time < tExecs[i].due
               /\ tExecs[i].time >= tExecs[i].due
    /\ Len(tCalls) = 1 => (Len(tExecs) = 1 /\ tTimers = {})
    /\ (Len(tCalls) >= 1 /\ Deferred(Len(tCalls)))
        => Cardinality({i \in 1..Len(tExecs) : tExecs[i].ncalls = Len(tCalls)})
               + Cardinality(tTimers) = 1

\* C19: at most one trailing timer is pending, it is the one timeoutId
\* names, and no timer scheduled before a leading execution is still pending.
C19_OneTrailingTimer ==
    /\ Cardinality(tTimers) <= 1
    /\ tTimeoutId = 0 <=> tTimers = {}
    /\ \A t \in tTimers :
        /\ t.id = tTimeoutId
        /\ \A i \in 1..Len(tExecs) :
            tExecs[i].kind = "leading" => t.id > tExecs[i].call

\* C19's case: a leading execution found a timer pending and cleared it.
C19_Witness ==
    \E i \in 1..Len(tExecs) : tExecs[i].kind = "leading" /\ tExecs[i].cleared

(***************************************************************************)
(* Properties of debounce                                                  *)
(***************************************************************************)
\* Every call so far arrived strictly less than delay after the previous one.
Burst ==
    \A i \in 2..Len(dCalls) : dCalls[i].time - dCalls[i - 1].time < dDelay

\* C4: for a burst of calls, fn is executed at most once, with the arguments
\* of the last call and no earlier than delay after it by Date.now(); until
\* then exactly the last call's timer is pending, and after it none is.
C4_BurstExecutesOnceWithLastArgs ==
    (Burst /\ Len(dCalls) >= 1) =>
        LET last == dCalls[Len(dCalls)]
        IN /\ Len(dExecs) <= 1
           /\ \A i \in 1..Len(dExecs) :
                /\ dExecs[i].args = last.args
                /\ dExecs[i].time >= last.time + dDelay
           /\ Len(dExecs) = 0 =>
                dTimers = {DebounceTimer(Len(dCalls), last.time + dDelay,
                                         last.args, last.ctx)}
           /\ Len(dExecs) = 1 => dTimers = {}

\* C20: at most one timer is pending, that of the latest call; fn is only
\* ever executed for the call that was the latest when it ran, and at most
\* once per call.
C20_OneDebounceTimer ==
    /\ Cardinality(dTimers) <= 1
    /\ \A t \in dTimers : t.id = dTimeoutId /\ t.id = Len(dCalls)
    /\ \A i \in 1..Len(dExecs) : dExecs[i].call = dExecs[i].ncalls
    /\ \A i, j \in 1..Len(dExecs) : i < j => dExecs[i].call < dExecs[j].call

\* C20's case: fn ran for a call that arrived while the previous call's timer
\* was pending.
C20_Witness ==
    \E i \in 1..Len(dExecs) :
        /\ dExecs[i].call >= 2
        /\ dCalls[dExecs[i].call].time - dCalls[dExecs[i].call - 1].time
             < dDelay

\* Every call so far arrived strictly more than delay after the previous one.
Spaced ==
    \A i \in 2..Len(dCalls) : dCalls[i].time - dCalls[i - 1].time > dDelay

\* Call c has been executed.
Executed(c) == \E i \in 1..Len(dExecs) : dExecs[i].call = c

\* C21 as stated: when all calls are separated by more than delay and every
\* cycle has finished, fn has run exactly once per call, with that call's
\* arguments and in call order.
C21_SeparatedCallsAllExecute ==
    (Spaced /\ dTimers = {}) =>
        /\ Len(dExecs) = Len(dCalls)
        /\ \A i \in 1..Len(dExecs) :
            dExecs[i].call = i /\ dExecs[i].args = dCalls[i].args

\* C21, amended: a call starts an independent cycle when the previous call's
\* timer has already run.  fn runs at most once per call, in call order, with
\* that call's arguments and no more than MaxEarly before delay has passed
\* since the call; a call has been executed exactly when its timer
\* is no longer pending and the next call did not cancel it.  So N calls, each
\* made after the previous call's timer ran, give exactly N executions.
C21_IndependentCycles ==
    /\ \A i, j \in 1..Len(dExecs) : i < j => dExecs[i].call < dExecs[j].call
    /\ \A i \in 1..Len(dExecs) :
        /\ dExecs[i].args = dCalls[dExecs[i].call].args
        /\ dExecs[i].time >= dCalls[dExecs[i].call].time + dDelay - MaxEarly
    /\ \A c \in 1..Len(dCalls) :
        Executed(c) <=> IF c < Len(dCalls)
                        THEN ~dCalls[c + 1].cancelled
                        ELSE dTimers = {}

\* C21's case: two calls with different arguments, more than delay apart, the
\* second made after the first call's timer ran, and both executed.
C21_Witness ==
    /\ dDelay > 0
    /\ Len(dCalls) = 2
    /\ Spaced
    /\ dCalls[1].args # dCalls[2].args
    /\ ~dCalls[2].cancelled
    /\ Len(dExecs) = 2

\* C22: fn is never executed inside a call of the wrapper: a call only
\* replaces whatever timer was pending by its own, and every execution is a
\* later timer step, run for the call that is then the latest.  With delay 0
\* a second call made before the first call's timer step supersedes it.
C22_NeverSynchronous ==
    [][ /\ Len(dCalls') > Len(dCalls) =>
            /\ dExecs' = dExecs
            /\ dTimers' = {DebounceTimer(Len(dCalls'), now + dDelay,
                                         dCalls'[Len(dCalls')].args,
                                         dCalls'[Len(dCalls')].ctx)}
        /\ Len(dExecs') > Len(dExecs) =>
            /\ dCalls' = dCalls
            /\ dExecs'[Len(dExecs')].call = Len(dCalls)
      ]_vars

\* C22's case: delay 0, two calls with different arguments at the same clock
\* value, the second before the first call's timer step; fn ran once, for the
\* second call.
C22_Witness ==
    /\ dDelay = 0
    /\ Len(dCalls) = 2
    /\ dCalls[1].time = dCalls[2].time
    /\ dCalls[1].args # dCalls[2].args
    /\ dCalls[2].cancelled
    /\ Len(dExecs) = 1
    /\ dExecs[1].call = 2
    /\ dExecs[1].args = dCalls[2].args

\* C23: fn is executed with the context (this) and the arguments of one and
\* the same wrapper call, the last call made before the timer ran.
C23_ContextOfLastCall ==
    \A i \in 1..Len(dExecs) :
        /\ dExecs[i].call = dExecs[i].ncalls
        /\ dExecs[i].ctx = dCalls[dExecs[i].call].ctx
        /\ dExecs[i].args = dCalls[dExecs[i].call].args

\* C23's case: fn ran for a call that superseded a call made with another
\* context.
C23_Witness ==
    \E i \in 1..Len(dExecs) :
        LET c == dExecs[i].call
        IN /\ c >= 2
           /\ dCalls[c].cancelled
           /\ dCalls[c - 1].ctx # dCalls[c].ctx
           /\ dExecs[i].ctx = dCalls[c].ctx

(***************************************************************************)
(* Exceptions thrown by fn                                                 *)
(***************************************************************************)
\* C24: throttle does not catch what fn throws, and whether fn throws or
\* returns, on the leading and on the trailing path, an execution leaves the
\* wrapper with the execution time recorded, the timer handle cleared and no
\* timer pending, so later calls are throttled from that execution.
C24_ThrowLeavesStateConsistent ==
    [][ Len(tExecs') > Len(tExecs) =>
            LET e == tExecs'[Len(tExecs')]
            IN /\ e.threw = FnThrows(e.args)
               /\ e.uncaught = e.threw
               /\ lastTime' = now
               /\ tTimeoutId' = 0
               /\ tTimers' = {}
      ]_vars

\* C24's case: fn threw on the leading path and on the trailing path, and a
\* call made a full wait after the trailing throw was executed at once.
C24_Witness ==
    \E i, j, k \in 1..Len(tExecs) :
        /\ tExecs[i].kind = "leading" /\ tExecs[i].threw
        /\ tExecs[j].kind = "trailing" /\ tExecs[j].threw
        /\ j < k
        /\ tExecs[k].kind = "leading"
        /\ tExecs[k].time >= tExecs[j].time + ThrottleWait

(***************************************************************************)
(* Properties of useDebounce                                               *)
(***************************************************************************)
\* C25: debouncedValue is the initial value until the first time the timer
\* runs; the timer only ever sets it to the value that is the current input
\* and has been unchanged for at least delay, never to a value the input has
\* left; while mounted with every effect flushed, either the timer of the
\* current input is pending or debouncedValue equals the current input.
C25_DebouncedValue ==
    /\ udDebounced = IF udLastSet = NoSet THEN "a" ELSE udLastSet.value
    /\ udLastSet # NoSet =>
        /\ udLastSet.value = udLastSet.input
        /\ udLastSet.time - udLastSet.since >= udLastSet.delay
    /\ (udLife = "mounted" /\ udPending = NoEffect) =>
        \/ udTimers = {} /\ udDebounced = udValue
        \/ \E t \in udTimers :
            /\ udTimers = {t}
            /\ t.value = udValue
            /\ t.due >= udSince + udDelay

\* C28: at most one timer is pending, that of the latest effect run; none is
\* pending once the unmount and its cleanup are done, and setDebouncedValue
\* is only ever called while the component is mounted.
C28_OneTimerNoneAfterUnmount ==
    /\ Cardinality(udTimers) <= 1
    /\ \A t \in udTimers : t.id = udHandler
    /\ (udLife = "unmounted" /\ udPending = NoEffect) => udTimers = {}
    /\ udLastSet # NoSet => udLastSet.life = "mounted"

(***************************************************************************)
(* Properties of useClipboard                                              *)
(***************************************************************************)
\* C26: from a successful copy until timeout after the most recent
\* successful copy, copied is true.
C26_CopiedUntilTimeoutAfterLastCopy ==
    (cbLastSuccess # 0 /\ now < cbLastSuccess + ClipTimeout) => cbCopied

(***************************************************************************)
(* Properties of useEventListener                                          *)
(***************************************************************************)
\* C27: an event of type eventName dispatched on the element while the hook
\* is mounted with a valid element invokes, exactly once, the handler of the
\* latest committed render, and an event dispatched after unmount invokes
\* nothing; effects that follow a render that changed only the handler leave
\* the DOM listener alone; effects that follow a render that changed
\* eventName or element leave exactly the listener for the new pair, or none
\* when the new element is not valid; none is left once the unmount and its
\* cleanup are done.
C27_LatestHandlerOnce ==
    [][ /\ elDispatches' > elDispatches =>
            /\ ( /\ elLife = "mounted"
                 /\ elElement \in DomElements
                 /\ elLast'.target = elElement
                 /\ elLast'.type = elEvent )
               => (elLast'.count = 1 /\ elLast'.handler = elHandler)
            /\ elLife = "unmounted" => elLast'.count = 0
        /\ (elLife = "mounted" /\ elPending = {"handler"} /\ elPending' = {}) =>
            /\ elListeners' = elListeners
            /\ elAdds' = elAdds
            /\ elRemoves' = elRemoves
        /\ (elLife = "mounted" /\ "listener" \in elPending /\ elPending' = {}) =>
            elListeners' = IF elElement \in DomElements
                           THEN {[id |-> elAdds', element |-> elElement,
                                  type |-> elEvent]}
                           ELSE {}
        /\ (elLife' = "unmounted" /\ elPending' = {}) => elListeners' = {}
      ]_vars

(***************************************************************************)
(* Properties of useOnlineStatus                                           *)
(***************************************************************************)
\* C29: once the listeners are attached and every event the browser fired
\* has been delivered, isOnline equals navigator.onLine.
C29_IsOnlineTracksBrowser ==
    (olLife = "mounted" /\ olQueue = <<>>) => olIsOnline = navOnline

(***************************************************************************)
(* Properties of storage                                                   *)
(***************************************************************************)
\* C30: get(key, d) returns the value of the latest set of the key that did
\* not fail, or d when no such set is in effect (never set, removed or
\* cleared); no call lets an error escape, and a failing set leaves the
\* store as it was.
C30_SetGetRoundTrip ==
    [][ stOps' > stOps =>
            /\ ~stLast'.escaped
            /\ (stLast'.op = "set" /\ stLast'.failed) => stStore' = stStore
            /\ stLast'.op = "get" =>
                stLast'.result = IF stWritten[stLast'.key] = Absent
                                 THEN stLast'.dflt
                                 ELSE stWritten[stLast'.key]
      ]_vars

(***************************************************************************)
(* Properties of classNames                                                *)
(***************************************************************************)
\* The class list of one argument as C31 describes it: the non-empty tokens
\* of a string, the keys with a truthy value of an object, the class lists
\* of the elements of an array, nothing for anything else.
RECURSIVE Tokens(_)
Tokens(arg) ==
    CASE arg.t = "string" -> SelectSeq(Split(arg.s), LAMBDA tok : tok # <<>>)
      [] arg.t = "object" -> TruthyKeys(arg.entries)
      [] arg.t = "array" -> Flat([i \in 1..Len(arg.items) |-> Tokens(arg.items[i])])
      [] OTHER -> <<>>

\* No leading, trailing or doubled space.
NoStraySpace(s) ==
    /\ s # <<>> => s[1] # " " /\ s[Len(s)] # " "
    /\ \A i \in 1..(Len(s) - 1) : ~(s[i] = " " /\ s[i + 1] = " ")

\* C31: the result is the class list of the arguments, in argument order,
\* joined by single spaces, with no leading, trailing or doubled space.
C31_ClassList ==
    cnResult # NotCalled =>
        /\ cnResult = Join(Flat([i \in 1..Len(cnArgs) |-> Tokens(cnArgs[i])]))
        /\ NoStraySpace(cnResult)

(***************************************************************************)
(* Properties of formatDate                                                *)
(***************************************************************************)
\* C32: for a valid date d >= 0 ms before now the result is 'just now' when
\* floor(d/1000) < 60, else N minutes with N = floor(d/60000) when N < 60,
\* else N hours with N = floor(d/3600000) when N < 24, else N days with
\* N = floor(d/86400000); N is at least 1 and the unit is singular exactly
\* when N = 1.
C32_RelativeBuckets ==
    (fdResult # FdNotCalled /\ fdDate.valid /\ fdDate.diff >= 0) =>
        LET d == fdDate.diff
        IN /\ fdResult.unit =
                IF d \div MsPerSecond < SecondsPerMinute THEN "just now"
                ELSE IF d \div MsPerMinute < MinutesPerHour THEN "minute"
                ELSE IF d \div MsPerHour < HoursPerDay THEN "hour"
                ELSE "day"
           /\ fdResult.unit = "minute" => fdResult.n = d \div MsPerMinute
           /\ fdResult.unit = "hour" => fdResult.n = d \div MsPerHour
           /\ fdResult.unit = "day" => fdResult.n = d \div MsPerDay
           /\ fdResult.unit # "just now" =>
                /\ fdResult.n >= 1
                /\ fdResult.plural <=> fdResult.n # 1

\* C32's case: a date one millisecond less than a day ago is reported as 23
\* hours ago, in the plural.
C32_Witness ==
    /\ fdDate.valid
    /\ fdDate.diff = MsPerDay - 1
    /\ fdResult.unit = "hour"
    /\ fdResult.n = HoursPerDay - 1
    /\ fdResult.plural

====
